---- MODULE Spec2Model ----
(***************************************************************************)
(* A model of the AST-to-IR lowering pass of the SysY compiler             *)
(* (src/src/front/ir.rs) and of its constant evaluator                     *)
(* (src/src/front/ir/eval.rs).                                             *)
(*                                                                         *)
(* Three specifications share the module:                                  *)
(*   SpecEval  the constant evaluator applied to bounded expressions;      *)
(*   Spec      the recursive lowering walk over a compilation unit, with   *)
(*             the Rust call stack made explicit as a stack of frames;     *)
(*   SpecArr   array element addressing (get_array_pos) over typed values. *)
(***************************************************************************)
EXTENDS Integers, Sequences, FiniteSets, TLC

VARIABLES
    ex,             \* SpecEval: the expression handed to eval
    res,            \* SpecEval: what eval returned for ex
    depth,          \* SpecEval: nesting depth of ex
    overflowChecks, \* TRUE for a build with overflow checks (debug)
    bbs,            \* Spec: instructions of each basic block of the function
                    \*       being lowered, indexed by block handle
    layout,         \* Spec: the function's layout, block handles in order
    cur,            \* Spec: ctx.current_bb (0 is None)
    func,           \* Spec: ctx.func (0 is None, else the k-th function)
    loop_stack,     \* Spec: ctx's stack of (start_bb, end_bb) pairs
    scope,          \* Spec: ctx.scope, the stack of lexical scopes
    nval,           \* Spec: value handles handed out so far
    stack,          \* Spec: the Rust call stack of generate_ir calls
    err,            \* Spec: the ParseError being propagated by `?`, or "none"
    ast,            \* Spec: what has been read of the input program
    ev,             \* Spec: what the last step did (history variable)
    shortLog,       \* Spec: the && and || lowered in this function (history)
    decl,           \* SpecArr: the array declaration that is indexed
    values,         \* SpecArr: the values created so far, indexed by handle
    emitted,        \* SpecArr: the handles appended to the current block
                    \*          since get_array_pos was called, in order
    indices,        \* SpecArr: the handles of the lowered index expressions
    pos             \* SpecArr: where get_array_pos stands, and its `result`

evalVars == <<ex, res, depth>>
arrVars == <<decl, values, emitted, indices, pos>>
\* what the lowering walk leaves alone
idleVars == <<ex, res, depth, overflowChecks, arrVars>>
lowerVars == <<bbs, layout, cur, func, loop_stack, scope, nval, stack, err,
               ast, ev, shortLog>>

vars == <<ex, res, depth, overflowChecks, bbs, layout, cur, func, loop_stack,
          scope, nval, stack, err, ast, ev, shortLog, decl, values, emitted,
          indices, pos>>

(***************************************************************************)
(* Bounds                                                                  *)
(***************************************************************************)
EvalDepth == 2

(***************************************************************************)
(* i32                                                                     *)
(***************************************************************************)
I32Max == 2147483647
I32Min == (-I32Max) - 1

None == [t |-> "None"]
Some(v) == [t |-> "Some", v |-> v]

Abs(x) == IF x < 0 THEN -x ELSE x

\* i32::checked_add
checked_add(a, b) ==
    IF (b > 0 /\ a > I32Max - b) \/ (b < 0 /\ a < I32Min - b)
    THEN None ELSE Some(a + b)

\* i32::checked_sub
checked_sub(a, b) ==
    IF (b < 0 /\ a > I32Max + b) \/ (b > 0 /\ a < I32Min + b)
    THEN None ELSE Some(a - b)

\* i32::checked_mul
checked_mul(a, b) ==
    IF a = 0 \/ b = 0 THEN Some(0)
    ELSE IF a = I32Min THEN (IF b = 1 THEN Some(I32Min) ELSE None)
    ELSE IF b = I32Min THEN (IF a = 1 THEN Some(I32Min) ELSE None)
    ELSE LET A == Abs(a)
             B == Abs(b)
             same == (a > 0) = (b > 0)
         IN  IF A <= I32Max \div B THEN Some(a * b)
             ELSE IF ~same /\ B >= 2 /\ I32Max % B = B - 1 /\ A = (I32Max \div B) + 1
                  THEN Some(I32Min)
                  ELSE None

\* 2^31 \div B and 2^31 % B for 2 <= B <= I32Max, without leaving i32
DivPow31(B) == (I32Max \div B) + (IF I32Max % B = B - 1 THEN 1 ELSE 0)
RemPow31(B) == ((I32Max % B) + 1) % B

\* i32::checked_div: None for a zero divisor and for MIN / -1; truncates
checked_div(a, b) ==
    IF b = 0 \/ (a = I32Min /\ b = -1) THEN None
    ELSE IF b = I32Min THEN Some(IF a = I32Min THEN 1 ELSE 0)
    ELSE IF a = I32Min
         THEN (IF b = 1 THEN Some(I32Min)
               ELSE IF b > 0 THEN Some(-DivPow31(b)) ELSE Some(DivPow31(-b)))
    ELSE LET q == Abs(a) \div Abs(b)
         IN  Some(IF (a >= 0) = (b > 0) THEN q ELSE -q)

\* i32::checked_rem: None for a zero divisor and for MIN % -1; sign of dividend
checked_rem(a, b) ==
    IF b = 0 \/ (a = I32Min /\ b = -1) THEN None
    ELSE IF b = I32Min THEN Some(IF a = I32Min THEN 0 ELSE a)
    ELSE IF a = I32Min
         THEN (IF Abs(b) = 1 THEN Some(0) ELSE Some(-RemPow31(Abs(b))))
    ELSE LET r == Abs(a) % Abs(b)
         IN  Some(IF a >= 0 THEN r ELSE -r)

(***************************************************************************)
(* Expressions (front::ast).  The precedence chain LOrExpr -> ... ->       *)
(* PrimaryExpr nests freely through PrimaryExpr::Expr, so a tree of        *)
(* operators stands for it.  An identifier leaf carries the Identifier the *)
(* scope binds its name to.                                                *)
(***************************************************************************)
Num(n) == [k |-> "Num", v |-> n]
Unary(op, e) == [k |-> "Unary", op |-> op, e |-> e]
Bin(op, l, r) == [k |-> "Bin", op |-> op, l |-> l, r |-> r]
ConstRef(n) == [k |-> "LVal", id |-> "Constant", v |-> n]
VarRef == [k |-> "LVal", id |-> "Variable"]
Unbound == [k |-> "LVal", id |-> "None"]
Call == [k |-> "FuncCall"]

UnaryOps == {"Pos", "Neg", "Not"}
BinOps == {"Or", "And", "Eq", "Ne", "Lt", "Gt", "Le", "Ge",
           "Add", "Sub", "Mul", "Div", "Mod"}

(***************************************************************************)
(* The constant evaluator (eval.rs)                                        *)
(***************************************************************************)
Ok(v) == [t |-> "Ok", v |-> v]
Err(e) == [t |-> "Err", e |-> e]
Panic == [t |-> "Panic"]

IsOk(r) == r.t = "Ok"

to_bool(x) == x # 0

as_i32(b) == IF b THEN 1 ELSE 0

ok_or(o, e) == IF o.t = "Some" THEN Ok(o.v) ELSE Err(e)

\* `-x` on i32: overflows only for MIN, where a build with overflow checks
\* panics and a build without them wraps to MIN.
NegI32(x, checks) ==
    IF x = I32Min THEN (IF checks THEN Panic ELSE Ok(I32Min)) ELSE Ok(-x)

\* impl Eval for UnaryExpr, the Unary(op, e) arm; r is e's result
EvalUnary(op, r, checks) ==
    IF ~IsOk(r) THEN r
    ELSE CASE op = "Neg" -> NegI32(r.v, checks)
           [] op = "Not" -> Ok(IF r.v = 0 THEN 1 ELSE 0)
           [] op = "Pos" -> r

\* impl Eval for LOrExpr / LAndExpr: `l? || r?` evaluates r (and its `?`)
\* only when l does not decide the result.
EvalLogic(op, l, r) ==
    IF ~IsOk(l) THEN l
    ELSE IF op = "Or" /\ to_bool(l.v) THEN Ok(1)
    ELSE IF op = "And" /\ ~to_bool(l.v) THEN Ok(0)
    ELSE IF ~IsOk(r) THEN r
    ELSE Ok(as_i32(to_bool(r.v)))

\* impl Eval for EqExpr / RelExpr
EvalCompare(op, l, r) ==
    IF ~IsOk(l) THEN l
    ELSE IF ~IsOk(r) THEN r
    ELSE CASE op = "Eq" -> Ok(as_i32(l.v = r.v))
           [] op = "Ne" -> Ok(as_i32(l.v # r.v))
           [] op = "Lt" -> Ok(as_i32(l.v < r.v))
           [] op = "Gt" -> Ok(as_i32(l.v > r.v))
           [] op = "Le" -> Ok(as_i32(l.v <= r.v))
           [] op = "Ge" -> Ok(as_i32(l.v >= r.v))

\* impl Eval for AddExpr / MulExpr
EvalArith(op, l, r) ==
    IF ~IsOk(l) THEN l
    ELSE IF ~IsOk(r) THEN r
    ELSE CASE op = "Add" -> ok_or(checked_add(l.v, r.v), "Overflow")
           [] op = "Sub" -> ok_or(checked_sub(l.v, r.v), "Overflow")
           [] op = "Mul" -> ok_or(checked_mul(l.v, r.v), "Overflow")
           [] op = "Div" -> ok_or(checked_div(l.v, r.v), "DivisionByZero")
           [] op = "Mod" -> ok_or(checked_rem(l.v, r.v), "DivisionByZero")

\* impl Eval for LVal, the LVal::Var arm
EvalLVal(e) ==
    IF e.id = "Constant" THEN Ok(e.v) ELSE Err("NotSupportedVariable")

\* A panic in an operand unwinds through every caller.
Strict(l, r, v) == IF l = Panic \/ (IsOk(l) /\ r = Panic) THEN Panic ELSE v

RECURSIVE eval(_, _)
eval(e, checks) ==
    CASE e.k = "Num" -> Ok(e.v)
      [] e.k = "LVal" -> EvalLVal(e)
      [] e.k = "FuncCall" -> Err("FunctionNotSupported")
      [] e.k = "Unary" -> EvalUnary(e.op, eval(e.e, checks), checks)
      [] e.k = "Bin" ->
            LET l == eval(e.l, checks)
                r == eval(e.r, checks)
            IN  IF e.op \in {"Or", "And"}
                THEN (IF l = Panic THEN Panic
                      ELSE IF IsOk(l) /\ r = Panic
                              /\ ~(e.op = "Or" /\ to_bool(l.v))
                              /\ ~(e.op = "And" /\ ~to_bool(l.v))
                           THEN Panic
                      ELSE EvalLogic(e.op, l, r))
                ELSE IF e.op \in {"Eq", "Ne", "Lt", "Gt", "Le", "Ge"}
                THEN Strict(l, r, EvalCompare(e.op, l, r))
                ELSE Strict(l, r, EvalArith(e.op, l, r))

(***************************************************************************)
(* SpecEval: eval applied to expressions built from bounded operands       *)
(***************************************************************************)
Atoms == {Num(0), Num(1), Num(I32Max), Unary("Neg", Num(I32Max)),
          ConstRef(2), VarRef, Call}
Operands == {Num(0), Num(1), Unary("Neg", Num(1))}

InitEval ==
    /\ ex \in Atoms
    /\ overflowChecks \in BOOLEAN
    /\ res = eval(ex, overflowChecks)
    /\ depth = 0
    /\ bbs = <<>> /\ layout = <<>> /\ cur = 0 /\ func = 0
    /\ loop_stack = <<>> /\ scope = <<>> /\ nval = 0 /\ stack = <<>>
    /\ err = "none" /\ ast = <<>> /\ ev = <<>> /\ shortLog = <<>>
    /\ decl = <<>> /\ values = <<>> /\ emitted = <<>> /\ indices = <<>>
    /\ pos = <<>>

\* wrap ex in a unary operator and evaluate
EvalUnaryExpr ==
    /\ depth < EvalDepth
    /\ \E op \in UnaryOps :
         /\ ex' = Unary(op, ex)
         /\ res' = eval(ex', overflowChecks)
    /\ depth' = depth + 1
    /\ UNCHANGED <<overflowChecks, lowerVars, arrVars>>

\* make ex the left operand of a binary operator and evaluate
EvalBinExpr ==
    /\ depth < EvalDepth
    /\ \E op \in BinOps, r \in Operands :
         /\ ex' = Bin(op, ex, r)
         /\ res' = eval(ex', overflowChecks)
    /\ depth' = depth + 1
    /\ UNCHANGED <<overflowChecks, lowerVars, arrVars>>

\* make ex the right operand of a binary operator and evaluate
EvalBinRhs ==
    /\ depth < EvalDepth
    /\ \E op \in BinOps, l \in Operands :
         /\ ex' = Bin(op, l, ex)
         /\ res' = eval(ex', overflowChecks)
    /\ depth' = depth + 1
    /\ UNCHANGED <<overflowChecks, lowerVars, arrVars>>

NextEval == EvalUnaryExpr \/ EvalBinExpr \/ EvalBinRhs

SpecEval == InitEval /\ [][NextEval]_vars

(***************************************************************************)
(* Identifiers and the scope manager (front::ident, ir::scope)             *)
(***************************************************************************)
Names == {"x"}

NoIdent == [kind |-> "None", def |-> 0, value |-> 0]
\* Identifier::from_variable
from_variable(v) == [kind |-> "Variable", def |-> v, value |-> 0]
\* Identifier::from_constant
from_constant(n) == [kind |-> "Constant", def |-> 0, value |-> n]

NoBindings == [n \in Names |-> NoIdent]
GlobalScope == [id |-> 0, tab |-> NoBindings]

MaxOf(S) == CHOOSE m \in S : \A o \in S : o <= m

\* Scope::go_into_scoop
go_into_scoop(sc, id) == Append(sc, [id |-> id, tab |-> NoBindings])
\* Scope::go_out_scoop
go_out_scoop(sc) == SubSeq(sc, 1, Len(sc) - 1)
\* Scope::current_scope_id
current_scope_id(sc) == sc[Len(sc)].id
\* Scope::add_identifier fails exactly when the top scope binds name
Collides(sc, name) == sc[Len(sc)].tab[name] # NoIdent
add_identifier(sc, name, ident) == [sc EXCEPT ![Len(sc)].tab[name] = ident]
\* Scope::get_identifier: innermost scope first (NoIdent is None)
get_identifier(sc, name) ==
    LET hits == {i \in 1..Len(sc) : sc[i].tab[name] # NoIdent}
    IN  IF hits = {} THEN NoIdent ELSE sc[MaxOf(hits)].tab[name]

(***************************************************************************)
(* Instructions and basic blocks (koopa, through ir::context)              *)
(***************************************************************************)
\* a value handle id that is an instruction op with block operands a and b
Inst(op, a, b, id) == [op |-> op, a |-> a, b |-> b, id |-> id, ty |-> "unit"]
\* an alloc of a slot of type ty ("i32" or "array"); the value is a pointer to it
Alloc(ty, id) == [op |-> "alloc", a |-> 0, b |-> 0, id |-> id, ty |-> ty]

\* what a ret returns: nothing, an integer literal, or the value with handle v
Void == [k |-> "void", v |-> 0]
Literal(n) == [k |-> "integer", v |-> n]
Computed(v) == [k |-> "value", v |-> v]
\* a ret instruction with handle id
RetInst(val, id) ==
    [op |-> "ret", a |-> 0, b |-> 0, id |-> id, ty |-> "unit", val |-> val]

IsTerm(i) == i.op \in {"ret", "br", "jump"}

\* add_inst!: push the instruction at the back of the block
add_inst(B, bb, i) == [B EXCEPT ![bb] = Append(@, i)]
\* Context::new_bb: the handle of the block it creates
new_bb(B) == Len(B) + 1
\* Context::block_ended
block_ended(B, bb) == Len(B[bb]) > 0 /\ IsTerm(B[bb][Len(B[bb])])
\* Context::end_block: a jump to target unless bb is ended
end_block(B, bb, target, id) ==
    IF block_ended(B, bb) THEN B ELSE add_inst(B, bb, Inst("jump", target, 0, id))
\* Context::get_while_info
get_while_info(ls) == ls[Len(ls)]
\* Context::add_while_info
add_while_info(ls, s, e) == Append(ls, [start_bb |-> s, end_bb |-> e])
\* Context::pop_while_info
pop_while_info(ls) == SubSeq(ls, 1, Len(ls) - 1)

\* the positions of the terminators in block bb
Terms(B, bb) == {i \in 1..Len(B[bb]) : IsTerm(B[bb][i])}

(***************************************************************************)
(* The input program.  The AST is read as the walk descends: each step     *)
(* that visits a node picks what the node is, within a family of programs  *)
(* and a node budget.  ast records what has been read.                     *)
(***************************************************************************)
MaxNodes == 5
\* the most operators && and || of one expression
MaxOps == 2

NameRef(n) == [k |-> "Name", n |-> n]

\* the trees of at most n operators && and || over the leaves L
RECURSIVE LogicTrees(_, _)
LogicTrees(L, n) ==
    IF n = 0 THEN L
    ELSE LogicTrees(L, n - 1) \cup
         UNION {{Bin(op, l, r) : op \in {"And", "Or"},
                                 l \in LogicTrees(L, i),
                                 r \in LogicTrees(L, n - 1 - i)}
                : i \in 0..(n - 1)}

\* the operators && and || of e
RECURSIVE Ops(_)
Ops(e) == IF e.k = "Bin" THEN 1 + Ops(e.l) + Ops(e.r) ELSE 0

Families ==
    { [name |-> "loops",
       stmts |-> {"While", "Block", "Break", "Continue", "Return", "Assign"},
       leaves |-> {Num(1)}, logic |-> {},
       params |-> {<<>>}, globals |-> FALSE],
      [name |-> "scopes",
       stmts |-> {"Decl", "Assign", "Block", "Return"},
       leaves |-> {Num(1), NameRef("x")}, logic |-> {},
       params |-> {<<>>, <<"x">>}, globals |-> TRUE],
      [name |-> "logic",
       stmts |-> {"If", "IfElse", "While", "ArrDecl", "Return", "ExprStmt"},
       leaves |-> {Num(1)}, logic |-> {NameRef("x")},
       params |-> {<<>>}, globals |-> TRUE],
      [name |-> "consts",
       stmts |-> {"ConstDecl", "Decl", "Block", "Return"},
       leaves |-> {Num(1), NameRef("x")}, logic |-> {NameRef("x")},
       params |-> {<<>>, <<"x">>}, globals |-> TRUE] }

Fam == ast.fam

Budget == MaxNodes - ast.nodes

\* the statements a block item may be, and those an arm or a loop body may be
ItemChoices == IF Budget > 0 THEN Fam.stmts ELSE {}
ArmChoices == (ItemChoices \ {"Decl", "ArrDecl", "ConstDecl"}) \cup {"Empty"}
\* the expressions an expression position may hold
ExprChoices ==
    Fam.leaves \cup
    (IF Fam.logic = {} \/ Budget = 0 THEN {}
     ELSE LogicTrees(Fam.logic, IF Budget < MaxOps THEN Budget ELSE MaxOps)
          \ Fam.logic)

Cost(kind) == IF kind = "Empty" THEN 0 ELSE 1

\* the while statements whose body encloses the node being lowered
LexLoops(stk) == {i \in 1..Len(stk) : stk[i].k = "While" /\ stk[i].pc = 2}

\* ast after reading a statement of this kind below the frames stk
Read(kind, stk) ==
    [ast EXCEPT !.nodes = @ + Cost(kind),
                !.bareBrk = @ \/ (kind = "Break" /\ LexLoops(stk) = {}),
                !.bareCont = @ \/ (kind = "Continue" /\ LexLoops(stk) = {})]

(***************************************************************************)
(* Frames of the call stack, one per active generate_ir call               *)
(***************************************************************************)
NoDecls == [n \in Names |-> NoIdent]

NewFrame(kind) ==
    CASE kind \in {"If", "IfElse"} ->
           [k |-> kind, pc |-> 0, current_bb |-> 0, then_bb |-> 0,
            then_bb_end |-> 0, end_bb |-> 0, else_bb |-> 0]
      [] kind = "While" ->
           [k |-> kind, pc |-> 0, body_bb |-> 0, end_bb |-> 0, start_bb |-> 0,
            l0 |-> <<>>]
      [] kind = "Block" ->
           [k |-> "StmtBlock", pc |-> 0, s0 |-> <<>>]
      [] kind = "Decl" ->
           [k |-> kind, pc |-> 0, name |-> "", var_alloc |-> 0, hit |-> FALSE]
      [] kind = "ArrDecl" ->
           [k |-> kind, pc |-> 0, name |-> "", bb |-> 0, alloc |-> 0,
            hit |-> FALSE]
      [] kind = "ConstDecl" ->
           [k |-> kind, pc |-> 0, name |-> "", r |-> Ok(0), hit |-> FALSE]
      [] kind = "Assign" ->
           [k |-> kind, pc |-> 0, name |-> ""]
      [] kind = "Return" ->
           [k |-> kind, pc |-> 0, e |-> [k |-> "none"], n0 |-> 0]
      [] OTHER -> [k |-> kind, pc |-> 0]

BlockFrame == [k |-> "Block", pc |-> 0, decls |-> NoDecls]

ExprFrame(e) ==
    [k |-> "E", pc |-> 0, e |-> e, result |-> 0, current_bb |-> 0,
     end_bb |-> 0, rhs_bb |-> 0, lo |-> 0, bbLo |-> 0]

Top == stack[Len(stack)]
Pop(stk) == SubSeq(stk, 1, Len(stk) - 1)
\* the running frame becomes f and calls child
CallFrom(f, child) == Append([stack EXCEPT ![Len(stack)] = f], child)
At(kind, pc) == err = "none" /\ stack # <<>> /\ Top.k = kind /\ Top.pc = pc

NoFrame == [k |-> "none", pc |-> 0]
NoUse == [name |-> "", got |-> NoIdent]
Use(n, id) == [name |-> n, got |-> id]
\* the events: a step inside a node, and the return of frame f
Step(node) == [node |-> node, ret |-> FALSE, ok |-> TRUE, f |-> NoFrame,
               use |-> NoUse]
Ret(f, ok, use) == [node |-> f.k, ret |-> TRUE, ok |-> ok, f |-> f, use |-> use]

(***************************************************************************)
(* Spec: the lowering walk.  Init is the Context as constructed, with      *)
(* CompUnit::generate_ir about to run.                                     *)
(***************************************************************************)
Init ==
    /\ ex = Num(0) /\ res = Ok(0) /\ depth = 0 /\ overflowChecks = FALSE
    /\ bbs = <<>> /\ layout = <<>> /\ cur = 0 /\ func = 0
    /\ loop_stack = <<>>
    /\ scope = <<GlobalScope>>
    /\ nval = 0
    /\ stack = <<[k |-> "CompUnit", pc |-> 0, decls |-> NoDecls]>>
    /\ err = "none"
    /\ \E fam \in Families :
         ast = [fam |-> fam, nodes |-> 0, nfun |-> 0, nblock |-> 1,
                bareBrk |-> FALSE, bareCont |-> FALSE]
    /\ ev = Step("none")
    /\ shortLog = <<>>
    /\ decl = <<>> /\ values = <<>> /\ emitted = <<>> /\ indices = <<>>
    /\ pos = <<>>

\* `?` in a caller: the error leaves the caller's frame as it is returned
Propagate ==
    /\ err \notin {"none", "exit"} /\ stack # <<>>
    /\ stack' = Pop(stack)
    /\ ev' = Ret(Top, FALSE, NoUse)
    /\ UNCHANGED <<idleVars, bbs, layout, cur, func, loop_stack, scope, nval, err, ast,
                   shortLog>>

\* the running frame returns Ok(..)
Return(f, use) == stack' = Pop(stack) /\ ev' = Ret(f, TRUE, use) /\ err' = err
\* the running frame returns Err(e)
Fail(f, e, use) == stack' = Pop(stack) /\ ev' = Ret(f, FALSE, use) /\ err' = e

\* the identifiers of e resolved in sc, as LVal::eval finds them
RECURSIVE Resolve(_, _)
Resolve(e, sc) ==
    CASE e.k = "Name" ->
           LET ident == get_identifier(sc, e.n)
           IN  IF ident.kind = "Constant" THEN ConstRef(ident.value)
               ELSE IF ident.kind = "Variable" THEN VarRef
               ELSE Unbound
      [] e.k = "Bin" -> Bin(e.op, Resolve(e.l, sc), Resolve(e.r, sc))
      [] OTHER -> e

\* expr.eval(&mut ctx.scope)
EvalIn(e, sc) == eval(Resolve(e, sc), overflowChecks)

\* no expression: None of an Option<Expr>
NoExpr == [k |-> "none"]

\* the expressions an optional expression position may hold after a node of
\* the statement itself has been counted
OptExprChoices == {NoExpr} \cup {e \in ExprChoices : Ops(e) < Budget}

\* the initial value of a global scalar whose initializer evaluated to r:
\* `x.eval(&mut ctx.scope).unwrap_or(0)`
GlobalInit(r) == IF IsOk(r) THEN r.v ELSE 0

\* the running frame, as f, calls show_error(.., 2): the process exits and no
\* call returns
Exit(f) ==
    /\ stack' = [stack EXCEPT ![Len(stack)] = f]
    /\ ev' = [node |-> f.k, ret |-> FALSE, ok |-> FALSE, f |-> f, use |-> NoUse]
    /\ err' = "exit"

\* CompUnit::generate_ir, a GlobalItem::Decl holding one global scalar VarDef
\* (VarDef::NormalVarDef, global branch): the initializer is evaluated, the
\* global allocated and the name bound.  The VarDef call is the record f.
CompUnitGlobalDecl ==
    /\ At("CompUnit", 0) /\ Fam.globals /\ Budget > 0
    /\ \E name \in Names, init \in OptExprChoices :
         LET r == IF init = NoExpr THEN Ok(0) ELSE EvalIn(init, scope)
             val == GlobalInit(r)
             var_alloc == nval + 2
             f == [k |-> "GlobalVarDef", pc |-> 0, name |-> name, init |-> init,
                   r |-> r, val |-> val, var_alloc |-> var_alloc,
                   hit |-> Collides(scope, name)]
         IN  /\ nval' = nval + 2
             /\ ast' = [ast EXCEPT !.nodes = @ + 1 + Ops(init)]
             /\ IF Collides(scope, name)
                THEN /\ stack' = stack
                     /\ ev' = Ret(f, FALSE, NoUse)
                     /\ err' = "MultipleDefinition"
                     /\ scope' = scope
                ELSE /\ scope' = add_identifier(scope, name, from_variable(var_alloc))
                     /\ stack' = [stack EXCEPT ![Len(stack)].decls[name] =
                                                     from_variable(var_alloc)]
                     /\ ev' = Ret(f, TRUE, NoUse)
                     /\ err' = err
    /\ UNCHANGED <<idleVars, bbs, layout, cur, func, loop_stack, shortLog>>

\* CompUnit::generate_ir, a GlobalItem::FuncDef: FuncDef::generate_ir up to its
\* call of the body's Block::generate_ir
FuncDefEnter ==
    /\ At("CompUnit", 0) /\ Budget > 0
    /\ \E params \in Fam.params :
         LET store_bb == new_bb(<<>>)
             id == ast.nblock
             \* parameter i: alloc nval + 2i - 1, store nval + 2i
             alloc(i) == nval + 2 * i - 1
             insts == [j \in 1..(2 * Len(params)) |->
                         IF j % 2 = 1 THEN Alloc("i32", nval + j)
                         ELSE Inst("store", 0, 0, nval + j)]
             decls == [n \in Names |->
                         IF \E i \in 1..Len(params) : params[i] = n
                         THEN from_variable(
                                alloc(CHOOSE i \in 1..Len(params) : params[i] = n))
                         ELSE NoIdent]
             sc1 == go_into_scoop(scope, id)
         IN  /\ func' = ast.nfun + 1
             /\ bbs' = <<insts>>
             /\ layout' = <<store_bb>>
             /\ nval' = nval + 2 * Len(params)
             /\ scope' = [sc1 EXCEPT ![Len(sc1)].tab = decls]
             /\ stack' = CallFrom(Top,
                            [k |-> "FuncDef", pc |-> 1, decls |-> decls,
                             s0 |-> scope, l0 |-> loop_stack]) \o <<BlockFrame>>
    /\ ast' = [ast EXCEPT !.nodes = @ + 1, !.nfun = @ + 1, !.nblock = @ + 1,
                          !.bareBrk = FALSE, !.bareCont = FALSE]
    /\ ev' = Step("FuncDef")
    /\ shortLog' = <<>>
    /\ UNCHANGED <<idleVars, cur, loop_stack, err>>

\* FuncDef::generate_ir after the body returned Ok
FuncDefExit ==
    /\ At("FuncDef", 1)
    /\ scope' = go_out_scoop(scope)
    /\ func' = 0
    /\ Return(Top, NoUse)
    /\ UNCHANGED <<idleVars, bbs, layout, cur, loop_stack, nval, ast, shortLog>>

\* CompUnit::generate_ir returns Ok after its last item
CompUnitDone ==
    /\ At("CompUnit", 0)
    /\ Return(Top, NoUse)
    /\ UNCHANGED <<idleVars, bbs, layout, cur, func, loop_stack, scope, nval, ast, shortLog>>

\* Block::generate_ir: open the block's basic block
BlockEnter ==
    /\ At("Block", 0)
    /\ LET bb == new_bb(bbs)
       IN  /\ bbs' = Append(bbs, <<>>)
           /\ layout' = Append(layout, bb)
           /\ cur' = bb
    /\ stack' = [stack EXCEPT ![Len(stack)].pc = 1]
    /\ ev' = Step("Block")
    /\ UNCHANGED <<idleVars, func, loop_stack, scope, nval, err, ast, shortLog>>

\* a loop over the items that goes on after every item
AfterItemGoOn(kind) == 1

\* where Block::generate_ir stands once an item of this kind has returned Ok:
\* in its loop (1), or past it (2) through the `break` that follows a
\* Stmt::Return, Stmt::Break or Stmt::Continue
AfterItem(kind) == IF kind \in {"Return", "Break", "Continue"} THEN 2 ELSE 1

\* Block::generate_ir: lower the next item; a Return, Break or Continue that
\* is directly an item ends the loop over the items once it returned
BlockItem ==
    /\ At("Block", 1)
    /\ \E kind \in ItemChoices :
         /\ stack' = CallFrom([Top EXCEPT !.pc = AfterItem(kind)],
                              NewFrame(kind))
         /\ ast' = Read(kind, stack)
    /\ ev' = Step("Block")
    /\ UNCHANGED <<idleVars, bbs, layout, cur, func, loop_stack, scope, nval, err, shortLog>>

\* Block::generate_ir after its loop: the trailing fresh block.  When the
\* loop was left early, the items it skipped are read here and not lowered.
BlockExit ==
    /\ \/ At("Block", 1) /\ ast' = ast
       \/ At("Block", 2) /\ \E skipped \in ItemChoices \cup {"Empty"} :
                               ast' = [Read(skipped, stack) EXCEPT !.nodes = ast.nodes]
    /\ LET bb == new_bb(bbs)
       IN  /\ bbs' = Append(bbs, <<>>)
           /\ layout' = Append(layout, bb)
           /\ cur' = bb
    /\ Return(Top, NoUse)
    /\ UNCHANGED <<idleVars, func, loop_stack, scope, nval, shortLog>>

\* Stmt::Block: enter the scope and call the block
StmtBlockEnter ==
    /\ At("StmtBlock", 0)
    /\ scope' = go_into_scoop(scope, ast.nblock)
    /\ ast' = [ast EXCEPT !.nblock = @ + 1]
    /\ stack' = CallFrom([Top EXCEPT !.pc = 1, !.s0 = scope], BlockFrame)
    /\ ev' = Step("StmtBlock")
    /\ UNCHANGED <<idleVars, bbs, layout, cur, func, loop_stack, nval, err, shortLog>>

\* a block statement that forgets to leave its scope
StmtBlockStay(sc) == sc

\* the scope stack Stmt::Block leaves behind: `ctx.scope.go_out_scoop()`
StmtBlockLeave(sc) == go_out_scoop(sc)

\* Stmt::Block after the block returned Ok: leave the scope
StmtBlockExit ==
    /\ At("StmtBlock", 1)
    /\ scope' = StmtBlockLeave(scope)
    /\ Return(Top, NoUse)
    /\ UNCHANGED <<idleVars, bbs, layout, cur, func, loop_stack, nval, ast, shortLog>>

\* get_type then remove_pointer, for the storage handle of an identifier: the
\* function's data flow graph is asked first, the program (globals) otherwise
SlotType(B, v) ==
    LET hits == {ty \in {"i32", "array"} :
                   \E bb \in 1..Len(B) : \E i \in 1..Len(B[bb]) :
                      B[bb][i].id = v /\ B[bb][i].op = "alloc" /\ B[bb][i].ty = ty}
    IN  IF hits = {} THEN "i32" ELSE CHOOSE ty \in hits : TRUE

\* a break that is accepted outside every loop and appends nothing there
BreakStmtUnguarded ==
    /\ At("Break", 0)
    /\ IF loop_stack = <<>>
       THEN UNCHANGED <<bbs, nval>>
       ELSE /\ bbs' = add_inst(bbs, cur,
                        Inst("jump", get_while_info(loop_stack).end_bb, 0, nval + 1))
            /\ nval' = nval + 1
    /\ Return(Top, NoUse)
    /\ UNCHANGED <<idleVars, layout, cur, func, loop_stack, scope, ast, shortLog>>

\* impl GenerateIR for Break
BreakStmt ==
    /\ At("Break", 0)
    /\ IF loop_stack = <<>>
       THEN /\ Fail(Top, "BreakOutsideLoop", NoUse)
            /\ UNCHANGED <<bbs, nval>>
       ELSE /\ bbs' = add_inst(bbs, cur,
                        Inst("jump", get_while_info(loop_stack).end_bb, 0, nval + 1))
            /\ nval' = nval + 1
            /\ Return(Top, NoUse)
    /\ UNCHANGED <<idleVars, layout, cur, func, loop_stack, scope, ast, shortLog>>

\* impl GenerateIR for Continue
ContinueStmt ==
    /\ At("Continue", 0)
    /\ IF loop_stack = <<>>
       THEN /\ Fail(Top, "ContinueOutsideLoop", NoUse)
            /\ UNCHANGED <<bbs, nval>>
       ELSE /\ bbs' = add_inst(bbs, cur,
                        Inst("jump", get_while_info(loop_stack).start_bb, 0, nval + 1))
            /\ nval' = nval + 1
            /\ Return(Top, NoUse)
    /\ UNCHANGED <<idleVars, layout, cur, func, loop_stack, scope, ast, shortLog>>

\* a return that always takes the runtime path
ReturnNeverFolds(r) == FALSE

\* `if let Ok(ret_val) = expr.eval(&mut ctx.scope)`: the returned expression
\* is folded exactly when its constant evaluation succeeds
ReturnFolds(r) == IsOk(r)

\* impl GenerateIR for Return: a void return; a return of the literal the
\* expression evaluates to; or, when evaluation fails, the call that lowers
\* the expression.  n0 is the last value handle handed out before.
ReturnStmt ==
    /\ At("Return", 0)
    /\ \E e \in {NoExpr} \cup ExprChoices :
         LET r == IF e = NoExpr THEN Ok(0) ELSE EvalIn(e, scope)
             f == [Top EXCEPT !.pc = 1, !.e = e, !.n0 = nval]
         IN  /\ ast' = [ast EXCEPT !.nodes = @ + Ops(e)]
             /\ IF e = NoExpr
                THEN /\ bbs' = add_inst(bbs, cur, RetInst(Void, nval + 1))
                     /\ nval' = nval + 1
                     /\ Return(f, NoUse)
                ELSE IF ReturnFolds(r)
                THEN /\ bbs' = add_inst(bbs, cur, RetInst(Literal(r.v), nval + 2))
                     /\ nval' = nval + 2
                     /\ Return(f, NoUse)
                ELSE /\ stack' = CallFrom(f, ExprFrame(e))
                     /\ ev' = Step("Return")
                     /\ UNCHANGED <<bbs, nval, err>>
    /\ UNCHANGED <<idleVars, layout, cur, func, loop_stack, scope, shortLog>>

\* impl GenerateIR for Return, after the expression was lowered: return its
\* value, the last one created
ReturnValue ==
    /\ At("Return", 1)
    /\ LET val == nval
       IN  bbs' = add_inst(bbs, cur, RetInst(Computed(val), nval + 1))
    /\ nval' = nval + 1
    /\ Return(Top, NoUse)
    /\ UNCHANGED <<idleVars, layout, cur, func, loop_stack, scope, ast, shortLog>>

\* Stmt::Empty
EmptyStmt ==
    /\ At("Empty", 0)
    /\ Return(Top, NoUse)
    /\ UNCHANGED <<idleVars, bbs, layout, cur, func, loop_stack, scope, nval, ast, shortLog>>

\* the running frame calls generate_ir on an expression it reads here
CallExpr(f) ==
    \E e \in ExprChoices :
       /\ stack' = CallFrom(f, ExprFrame(e))
       /\ ast' = [ast EXCEPT !.nodes = @ + Ops(e)]

\* Stmt::Expr: lower the expression
ExprStmtEnter ==
    /\ At("ExprStmt", 0)
    /\ CallExpr([Top EXCEPT !.pc = 1])
    /\ ev' = Step("ExprStmt")
    /\ UNCHANGED <<idleVars, bbs, layout, cur, func, loop_stack, scope, nval, err, shortLog>>

\* Stmt::Expr: drop the value
ExprStmtExit ==
    /\ At("ExprStmt", 1)
    /\ Return(Top, NoUse)
    /\ UNCHANGED <<idleVars, bbs, layout, cur, func, loop_stack, scope, nval, ast, shortLog>>

\* impl GenerateIR for Assign, target LVal::Var: lower the value
AssignEnter ==
    /\ At("Assign", 0)
    /\ \E name \in Names : CallExpr([Top EXCEPT !.pc = 1, !.name = name])
    /\ ev' = Step("Assign")
    /\ UNCHANGED <<idleVars, bbs, layout, cur, func, loop_stack, scope, nval, err, shortLog>>

\* impl GenerateIR for Assign, target LVal::Var: resolve the target and store
AssignStore ==
    /\ At("Assign", 1)
    /\ LET ident == get_identifier(scope, Top.name)
       IN  IF ident.kind \notin {"Variable", "ConstArray"}
           THEN /\ Fail(Top, "UnknownIdentifier", Use(Top.name, ident))
                /\ UNCHANGED <<bbs, nval>>
           ELSE /\ bbs' = add_inst(bbs, cur, Inst("store", 0, 0, nval + 1))
                /\ nval' = nval + 1
                /\ Return(Top, Use(Top.name, ident))
    /\ UNCHANGED <<idleVars, layout, cur, func, loop_stack, scope, ast, shortLog>>

\* the frame of the block whose item is running declares name as ident
Declare(stk, name, ident) == [stk EXCEPT ![Len(stk)].decls[name] = ident]

\* add_identifier(..).map_err(|_| MultipleDefinition)? then Ok, for the
\* declaration frame f of a block item
BindOrFail(f, ident) ==
    IF Collides(scope, f.name)
    THEN /\ Fail([f EXCEPT !.hit = TRUE], "MultipleDefinition", NoUse)
         /\ scope' = scope
    ELSE /\ scope' = add_identifier(scope, f.name, ident)
         /\ stack' = Declare(Pop(stack), f.name, ident)
         /\ ev' = Ret(f, TRUE, NoUse)
         /\ err' = err

\* VarDef::NormalVarDef, local branch: allocate, then lower the initializer
\* or, without one, bind the name
DeclEnter ==
    /\ At("Decl", 0)
    /\ LET bb == cur
           var_alloc == nval + 1
       IN  /\ bbs' = add_inst(bbs, bb, Alloc("i32", var_alloc))
           /\ nval' = nval + 1
           /\ \E name \in Names :
                LET f == [Top EXCEPT !.pc = 1, !.name = name, !.var_alloc = var_alloc]
                IN  \/ CallExpr(f) /\ ev' = Step("Decl")
                                   /\ UNCHANGED <<scope, err>>
                    \/ BindOrFail(f, from_variable(var_alloc)) /\ ast' = ast
    /\ UNCHANGED <<idleVars, layout, cur, func, loop_stack, shortLog>>

\* VarDef::NormalVarDef, local branch: store the initial value in the block
\* that is current now, and bind the name
DeclStore ==
    /\ At("Decl", 1)
    /\ LET current_bb == cur
       IN  bbs' = add_inst(bbs, current_bb, Inst("store", 0, 0, nval + 1))
    /\ nval' = nval + 1
    /\ BindOrFail(Top, from_variable(Top.var_alloc))
    /\ UNCHANGED <<idleVars, layout, cur, func, loop_stack, ast, shortLog>>

\* add_identifier(..).unwrap_or_else(|e| show_error(..)) then Ok, for the
\* constant definition frame f of a block item
BindOrExit(f, ident) ==
    IF Collides(scope, f.name)
    THEN /\ Exit([f EXCEPT !.hit = TRUE])
         /\ scope' = scope
    ELSE /\ scope' = add_identifier(scope, f.name, ident)
         /\ stack' = Declare(Pop(stack), f.name, ident)
         /\ ev' = Ret(f, TRUE, NoUse)
         /\ err' = err

\* ConstDef::NormalConstDef: evaluate the value and bind the name to it
ConstDecl ==
    /\ At("ConstDecl", 0)
    /\ \E name \in Names, value \in ExprChoices :
         LET r == EvalIn(value, scope)
             f == [Top EXCEPT !.name = name, !.r = r]
         IN  /\ ast' = [ast EXCEPT !.nodes = @ + Ops(value)]
             /\ IF ~IsOk(r)
                THEN Fail(f, "ConstExprError", NoUse) /\ scope' = scope
                ELSE BindOrExit(f, from_constant(r.v))
    /\ UNCHANGED <<idleVars, bbs, layout, cur, func, loop_stack, nval, shortLog>>

\* VarDef::ArrayVarDef, local branch: allocate in bb; then either bind the
\* name, or build the initializer list, whose element is lowered here
\* (InitializeList::from_expr_array)
ArrDeclEnter ==
    /\ At("ArrDecl", 0)
    /\ LET bb == cur
           alloc == nval + 1
       IN  /\ bbs' = add_inst(bbs, bb, Alloc("array", alloc))
           /\ nval' = nval + 1
           /\ \E name \in Names :
                LET f == [Top EXCEPT !.pc = 1, !.name = name, !.bb = bb,
                                     !.alloc = alloc]
                IN  \/ CallExpr(f) /\ ev' = Step("ArrDecl")
                                   /\ UNCHANGED <<scope, err>>
                    \/ BindOrFail(f, from_variable(alloc)) /\ ast' = ast
    /\ UNCHANGED <<idleVars, layout, cur, func, loop_stack, shortLog>>

\* the block ArrayVarDef stores the initializer in: `bb`
ArrayStoreBlock(f) == f.bb

\* VarDef::ArrayVarDef, local branch: the aggregate (to_local_value) is
\* stored through the block handle taken before the initializer was lowered
ArrDeclStore ==
    /\ At("ArrDecl", 1)
    /\ bbs' = add_inst(bbs, ArrayStoreBlock(Top), Inst("store", 0, 0, nval + 2))
    /\ nval' = nval + 2
    /\ BindOrFail(Top, from_variable(Top.alloc))
    /\ UNCHANGED <<idleVars, layout, cur, func, loop_stack, ast, shortLog>>

\* the running frame calls generate_ir on a statement it reads here
CallStmt(f) ==
    \E kind \in ArmChoices :
       /\ stack' = CallFrom(f, NewFrame(kind))
       /\ ast' = Read(kind, Append(Pop(stack), f))

\* impl GenerateIR for If: lower the condition
IfEnter ==
    /\ \/ At("If", 0)
       \/ At("IfElse", 0)
    /\ CallExpr([Top EXCEPT !.pc = 1])
    /\ ev' = Step("If")
    /\ UNCHANGED <<idleVars, bbs, layout, cur, func, loop_stack, scope, nval, err, shortLog>>

\* impl GenerateIR for If: open the then block and lower the then arm
IfThen ==
    /\ \/ At("If", 1)
       \/ At("IfElse", 1)
    /\ LET current_bb == cur
           then_bb == new_bb(bbs)
       IN  /\ bbs' = Append(bbs, <<>>)
           /\ layout' = Append(layout, then_bb)
           /\ cur' = then_bb
           /\ CallStmt([Top EXCEPT !.pc = 2, !.current_bb = current_bb,
                                   !.then_bb = then_bb])
    /\ ev' = Step("If")
    /\ UNCHANGED <<idleVars, func, loop_stack, scope, nval, err, shortLog>>

\* a branch on the condition with its two targets exchanged
IfBranchSwapped(then_bb, other_bb, id) == Inst("br", other_bb, then_bb, id)

\* the branch that ends the block the condition was lowered in
IfBranch(then_bb, other_bb, id) == Inst("br", then_bb, other_bb, id)

\* impl GenerateIR for If without else, after the then arm: end the arm,
\* branch on the condition, go on in the end block
IfEnd ==
    /\ At("If", 2)
    /\ LET then_bb_end == cur
           end_bb == new_bb(bbs)
           B1 == Append(bbs, <<>>)
           B2 == end_block(B1, then_bb_end, end_bb, nval + 1)
       IN  /\ bbs' = add_inst(B2, Top.current_bb,
                              IfBranch(Top.then_bb, end_bb, nval + 2))
           /\ layout' = Append(layout, end_bb)
           /\ cur' = end_bb
           /\ Return([Top EXCEPT !.then_bb_end = then_bb_end, !.end_bb = end_bb],
                     NoUse)
    /\ nval' = nval + 2
    /\ UNCHANGED <<idleVars, func, loop_stack, scope, ast, shortLog>>

\* impl GenerateIR for If with else, after the then arm: open the else block
\* and lower the else arm
IfElseArm ==
    /\ At("IfElse", 2)
    /\ LET then_bb_end == cur
           end_bb == new_bb(bbs)
           else_bb == end_bb + 1
       IN  /\ bbs' = bbs \o <<<<>>, <<>>>>
           /\ layout' = Append(layout, else_bb)
           /\ cur' = else_bb
           /\ CallStmt([Top EXCEPT !.pc = 3, !.then_bb_end = then_bb_end,
                                   !.end_bb = end_bb, !.else_bb = else_bb])
    /\ ev' = Step("If")
    /\ UNCHANGED <<idleVars, func, loop_stack, scope, nval, err, shortLog>>

\* impl GenerateIR for If with else, after the else arm
IfElseEnd ==
    /\ At("IfElse", 3)
    /\ LET else_bb_end == cur
           B1 == end_block(bbs, Top.then_bb_end, Top.end_bb, nval + 1)
           B2 == end_block(B1, else_bb_end, Top.end_bb, nval + 2)
       IN  bbs' = add_inst(B2, Top.current_bb,
                           IfBranch(Top.then_bb, Top.else_bb, nval + 3))
    /\ layout' = Append(layout, Top.end_bb)
    /\ cur' = Top.end_bb
    /\ nval' = nval + 3
    /\ Return(Top, NoUse)
    /\ UNCHANGED <<idleVars, func, loop_stack, scope, ast, shortLog>>

\* impl GenerateIR for While: create the blocks, lower the condition in the
\* start block
WhileEnter ==
    /\ At("While", 0)
    /\ LET body_bb == new_bb(bbs)
           end_bb == body_bb + 1
           start_bb == body_bb + 2
       IN  /\ bbs' = bbs \o <<<<>>, <<>>, <<>>>>
           /\ layout' = Append(layout, start_bb)
           /\ cur' = start_bb
           /\ CallExpr([Top EXCEPT !.pc = 1, !.body_bb = body_bb,
                                   !.end_bb = end_bb, !.start_bb = start_bb,
                                   !.l0 = loop_stack])
    /\ ev' = Step("While")
    /\ UNCHANGED <<idleVars, func, loop_stack, scope, nval, err, shortLog>>

\* impl GenerateIR for While: branch on the condition, push the loop, lower
\* the body
WhileBody ==
    /\ At("While", 1)
    /\ LET start_branch_bb == cur
       IN  bbs' = add_inst(bbs, start_branch_bb,
                           Inst("br", Top.body_bb, Top.end_bb, nval + 1))
    /\ nval' = nval + 1
    /\ layout' = Append(layout, Top.body_bb)
    /\ loop_stack' = add_while_info(loop_stack, Top.start_bb, Top.end_bb)
    /\ cur' = Top.body_bb
    /\ CallStmt([Top EXCEPT !.pc = 2])
    /\ ev' = Step("While")
    /\ UNCHANGED <<idleVars, func, scope, err, shortLog>>

\* a while statement that forgets to pop its loop
WhileStay(ls) == ls

\* the loop stack While::generate_ir leaves behind: `ctx.pop_while_info()`
WhileLeave(ls) == pop_while_info(ls)

\* a while statement that always puts the back edge into the body's exit block
WhileExitSameBlock ==
    /\ At("While", 2)
    /\ bbs' = add_inst(bbs, cur, Inst("jump", Top.start_bb, 0, nval + 1))
    /\ layout' = Append(layout, Top.end_bb)
    /\ nval' = nval + 1
    /\ cur' = Top.end_bb
    /\ loop_stack' = WhileLeave(loop_stack)
    /\ Return(Top, NoUse)
    /\ UNCHANGED <<idleVars, func, scope, ast, shortLog>>

\* impl GenerateIR for While, after the body: the back edge, in the body's
\* exit block or in a fresh block when that one is ended; pop the loop
WhileExit ==
    /\ At("While", 2)
    /\ LET body_bb_end == cur
           jump_start == Inst("jump", Top.start_bb, 0, nval + 1)
       IN  IF ~block_ended(bbs, body_bb_end)
           THEN /\ bbs' = add_inst(bbs, body_bb_end, jump_start)
                /\ layout' = Append(layout, Top.end_bb)
           ELSE LET fresh == new_bb(bbs)
                IN  /\ bbs' = add_inst(Append(bbs, <<>>), fresh, jump_start)
                    /\ layout' = layout \o <<fresh, Top.end_bb>>
    /\ nval' = nval + 1
    /\ cur' = Top.end_bb
    /\ loop_stack' = WhileLeave(loop_stack)
    /\ Return(Top, NoUse)
    /\ UNCHANGED <<idleVars, func, scope, ast, shortLog>>

(***************************************************************************)
(* Expressions: generate_ir on the running frame's expression e            *)
(***************************************************************************)
\* impl GenerateIR for i32 (PrimaryExpr::Number): an integer value, no
\* instruction
ExprNumber ==
    /\ At("E", 0) /\ Top.e.k = "Num"
    /\ nval' = nval + 1
    /\ Return(Top, NoUse)
    /\ UNCHANGED <<idleVars, bbs, layout, cur, func, loop_stack, scope, ast, shortLog>>

\* impl GenerateIR for LVal, the LVal::Var arm
ExprLVal ==
    /\ At("E", 0) /\ Top.e.k = "Name"
    /\ LET ident == get_identifier(scope, Top.e.n)
           bb == cur
       IN  CASE ident.kind = "Variable" ->
                  /\ bbs' = add_inst(bbs, bb,
                              IF SlotType(bbs, ident.def) = "array"
                              THEN Inst("get_elem_ptr", 0, 0, nval + 2)
                              ELSE Inst("load", 0, 0, nval + 1))
                  /\ nval' = nval + (IF SlotType(bbs, ident.def) = "array"
                                     THEN 2 ELSE 1)
                  /\ Return(Top, Use(Top.e.n, ident))
             [] ident.kind = "Constant" ->
                  /\ nval' = nval + 1
                  /\ bbs' = bbs
                  /\ Return(Top, Use(Top.e.n, ident))
             [] ident.kind = "None" ->
                  /\ Fail(Top, "UnknownIdentifier", Use(Top.e.n, ident))
                  /\ UNCHANGED <<bbs, nval>>
             [] OTHER ->
                  /\ Fail(Top, "InvalidExpr", Use(Top.e.n, ident))
                  /\ UNCHANGED <<bbs, nval>>
    /\ UNCHANGED <<idleVars, layout, cur, func, loop_stack, scope, ast, shortLog>>

\* LAndExpr::And / LOrExpr::Or: lower lhs
ExprLogicLhs ==
    /\ At("E", 0) /\ Top.e.k = "Bin" /\ Top.e.op \in {"And", "Or"}
    /\ stack' = CallFrom([Top EXCEPT !.pc = 1], ExprFrame(Top.e.l))
    /\ ev' = Step("Logic")
    /\ UNCHANGED <<idleVars, bbs, layout, cur, func, loop_stack, scope, nval, err, ast,
                   shortLog>>

\* a branch on the stored lhs with its two targets exchanged
ShortBranchSwapped(op, rhs_bb, end_bb, id) ==
    IF op = "And" THEN Inst("br", end_bb, rhs_bb, id)
    ELSE Inst("br", rhs_bb, end_bb, id)

\* the branch on the stored lhs: `&&` lowers rhs on the true edge, `||` on
\* the false edge; the other edge goes to end_bb
ShortBranch(op, rhs_bb, end_bb, id) ==
    IF op = "And" THEN Inst("br", rhs_bb, end_bb, id)
    ELSE Inst("br", end_bb, rhs_bb, id)

\* LAndExpr::And / LOrExpr::Or after lhs: result slot, store lhs != 0, branch,
\* then lower rhs in its own block
ExprLogicRhs ==
    /\ At("E", 1) /\ Top.e.op \in {"And", "Or"}
    /\ LET result == nval + 1
           current_bb == cur
           end_bb == new_bb(bbs)
           rhs_bb == end_bb + 1
           B1 == add_inst(bbs, current_bb, Alloc("i32", result))
           B2 == add_inst(B1, current_bb, Inst("ne", 0, 0, nval + 3))
           B3 == add_inst(B2, current_bb, Inst("store", 0, 0, nval + 4))
           B4 == add_inst(B3, current_bb, Inst("load", 0, 0, nval + 5))
           B5 == add_inst(B4, current_bb,
                          ShortBranch(Top.e.op, rhs_bb, end_bb, nval + 6))
       IN  /\ bbs' = B5 \o <<<<>>, <<>>>>
           /\ layout' = Append(layout, rhs_bb)
           /\ cur' = rhs_bb
           /\ stack' = CallFrom(
                  [Top EXCEPT !.pc = 2, !.result = result,
                              !.current_bb = current_bb, !.end_bb = end_bb,
                              !.rhs_bb = rhs_bb, !.lo = nval + 6,
                              !.bbLo = rhs_bb],
                  ExprFrame(Top.e.r))
    /\ nval' = nval + 6
    /\ ev' = Step("Logic")
    /\ UNCHANGED <<idleVars, func, loop_stack, scope, err, ast, shortLog>>

\* LAndExpr::And / LOrExpr::Or after rhs: store rhs != 0, jump to end_bb, and
\* load the result there
ExprLogicEnd ==
    /\ At("E", 2) /\ Top.e.op \in {"And", "Or"}
    /\ LET current_bb == cur
           B1 == add_inst(bbs, current_bb, Inst("ne", 0, 0, nval + 2))
           B2 == add_inst(B1, current_bb, Inst("store", 0, 0, nval + 3))
           B3 == add_inst(B2, current_bb, Inst("jump", Top.end_bb, 0, nval + 4))
       IN  bbs' = add_inst(B3, Top.end_bb, Inst("load", 0, 0, nval + 5))
    /\ layout' = Append(layout, Top.end_bb)
    /\ cur' = Top.end_bb
    /\ nval' = nval + 5
    /\ shortLog' = Append(shortLog,
                     [op |-> Top.e.op, br |-> Top.current_bb,
                      rhs_bb |-> Top.rhs_bb, end_bb |-> Top.end_bb,
                      lo |-> Top.lo, hi |-> nval,
                      bbLo |-> Top.bbLo, bbHi |-> Len(bbs)])
    /\ Return(Top, NoUse)
    /\ UNCHANGED <<idleVars, func, loop_stack, scope, ast>>

Next ==
    \/ Propagate
    \/ CompUnitGlobalDecl \/ FuncDefEnter \/ FuncDefExit \/ CompUnitDone
    \/ BlockEnter \/ BlockItem \/ BlockExit
    \/ StmtBlockEnter \/ StmtBlockExit
    \/ BreakStmt \/ ContinueStmt \/ ReturnStmt \/ ReturnValue \/ EmptyStmt
    \/ ExprStmtEnter \/ ExprStmtExit
    \/ AssignEnter \/ AssignStore
    \/ DeclEnter \/ DeclStore \/ ArrDeclEnter \/ ArrDeclStore \/ ConstDecl
    \/ IfEnter \/ IfThen \/ IfEnd \/ IfElseArm \/ IfElseEnd
    \/ WhileEnter \/ WhileBody \/ WhileExit
    \/ ExprNumber \/ ExprLVal \/ ExprLogicLhs \/ ExprLogicRhs \/ ExprLogicEnd

Spec == Init /\ [][Next]_vars

(***************************************************************************)
(* Properties of the lowering walk (Spec)                                  *)
(***************************************************************************)
\* a function definition has just returned Ok
FuncLowered == ev.ret /\ ev.node = "FuncDef" /\ ev.ok

\* C1: after a function definition has been lowered successfully, every
\* block of its layout holds exactly one terminator (ret, br or jump).
C1_EveryBlockOneTerminator ==
    FuncLowered =>
        \A i \in 1..Len(layout) : Cardinality(Terms(bbs, layout[i])) = 1

C3_ContainsBareJumpFails ==
    (ev.ret /\ ev.node = "FuncDef" /\ (ast.bareBrk \/ ast.bareCont)) =>
        ~ev.ok /\ err \in {"BreakOutsideLoop", "ContinueOutsideLoop"}

C3_BareStep ==
    /\ (At("Break", 0) /\ LexLoops(stack) = {}) =>
          (err' = "BreakOutsideLoop" /\ bbs' = bbs /\ ~ev'.ok)
    /\ (At("Continue", 0) /\ LexLoops(stack) = {}) =>
          (err' = "ContinueOutsideLoop" /\ bbs' = bbs /\ ~ev'.ok)
    /\ err \in {"BreakOutsideLoop", "ContinueOutsideLoop"} =>
          (err' = err /\ bbs' = bbs /\ ~ev'.ok)

\* C3, amended: a break (continue) that is lowered while no while body
\* encloses it returns BreakOutsideLoop (ContinueOutsideLoop) and appends
\* nothing to any block; from then on every enclosing call, the function
\* definition included, returns that error and appends nothing.
C3_LoweredBareJumpFails == [][C3_BareStep]_vars

\* a function definition has failed with BreakOutsideLoop
C3_Witness ==
    ev.ret /\ ev.node = "FuncDef" /\ ~ev.ok /\ err = "BreakOutsideLoop"

\* the blocks that end in a conditional branch
Branching == {bb \in 1..Len(bbs) : \E i \in 1..Len(bbs[bb]) : bbs[bb][i].op = "br"}

\* C4: a break that has been lowered appended a jump to the end block, and a
\* continue a jump to the start block, of the innermost while whose body
\* encloses it.
C4_InnermostLoop ==
    (ev.ret /\ ev.ok /\ ev.node \in {"Break", "Continue"}) =>
        /\ LexLoops(stack) # {}
        /\ LET w == stack[MaxOf(LexLoops(stack))]
               j == bbs[cur][Len(bbs[cur])]
           IN  /\ j.op = "jump"
               /\ j.a = IF ev.node = "Break" THEN w.end_bb ELSE w.start_bb

\* a break lowered in the body of an outer while after an inner while statement
\* of that body has finished
C4_Witness ==
    /\ ev.ret /\ ev.ok /\ ev.node = "Break"
    /\ Cardinality(LexLoops(stack)) = 1
    /\ \E bb \in Branching : bb > stack[MaxOf(LexLoops(stack))].start_bb
    /\ bbs[cur][Len(bbs[cur])].a = stack[MaxOf(LexLoops(stack))].end_bb

\* the declaration of name n that is lexically visible below the frames stk:
\* that of the innermost block, function or compilation unit declaring it
LexDecl(stk, n) ==
    LET hits == {i \in 1..Len(stk) :
                   "decls" \in DOMAIN stk[i] /\ stk[i].decls[n] # NoIdent}
    IN  IF hits = {} THEN NoIdent
        ELSE stk[MaxOf(hits)].decls[n]

\* C5: every identifier use resolves to the declaration of the innermost
\* scope still open; a name declared only in blocks that have been left
\* resolves to the outer declaration, or fails with UnknownIdentifier when
\* there is none.
C5_InnermostOpenScope ==
    (ev.ret /\ ev.use.name # "") =>
        /\ ev.use.got = LexDecl(stack, ev.use.name)
        /\ ev.use.got = NoIdent => (~ev.ok /\ err = "UnknownIdentifier")
        /\ ev.use.got.kind = "Variable" => ev.ok

\* the storage slots allocated in the function so far
Slots ==
    UNION {{bbs[bb][i].id : i \in {j \in 1..Len(bbs[bb]) : bbs[bb][j].op = "alloc"}}
           : bb \in 1..Len(bbs)}

\* an assignment whose target resolved to the parameter although the function
\* allocated a later slot that no open block declares: a block that shadowed
\* the name has been left
C5_Witness ==
    /\ ev.ret /\ ev.ok /\ ev.node = "Assign"
    /\ \E i \in 1..Len(stack) :
         /\ stack[i].k = "FuncDef"
         /\ ev.use.got = stack[i].decls[ev.use.name]
    /\ \E v \in Slots :
         /\ v > ev.use.got.def
         /\ \A i \in 1..Len(stack) :
              "decls" \in DOMAIN stack[i] =>
                  \A n \in Names : stack[i].decls[n].def # v

\* the blocks opened while the right operand of the logged && or || was
\* lowered, its own block included
Region(s) == s.rhs_bb .. s.bbHi

\* the instructions of block bb that lowering the right operand produced
RhsInsts(s, bb) ==
    {i \in 1..Len(bbs[bb]) : bbs[bb][i].id > s.lo /\ bbs[bb][i].id <= s.hi}

\* the blocks a terminator may pass control to
Targets(i) ==
    IF i.op = "br" THEN {i.a, i.b} ELSE IF i.op = "jump" THEN {i.a} ELSE {}

\* the control-flow edges <<from, instruction, to>> of the function
Edges ==
    UNION {UNION {{<<bb, i, t>> : t \in Targets(bbs[bb][i])}
                  : i \in 1..Len(bbs[bb])}
           : bb \in 1..Len(bbs)}

\* C7: for every lowered `l && r` (`l || r`), the instructions of r lie in
\* blocks that control enters only through the true (false) edge of the branch
\* on l != 0, whose other edge goes to the end block, outside those blocks.
C7_ShortCircuit ==
    \A k \in 1..Len(shortLog) :
        LET s == shortLog[k]
            b == bbs[s.br][CHOOSE i \in 1..Len(bbs[s.br]) : bbs[s.br][i].id = s.lo]
        IN  /\ \A bb \in 1..Len(bbs) : RhsInsts(s, bb) # {} => bb \in Region(s)
            /\ b.op = "br"
            /\ IF s.op = "And" THEN b.a = s.rhs_bb /\ b.b = s.end_bb
                               ELSE b.b = s.rhs_bb /\ b.a = s.end_bb
            /\ s.end_bb \notin Region(s)
            /\ \A e \in Edges :
                 (e[1] \notin Region(s) /\ e[3] \in Region(s)) =>
                     /\ e[1] = s.br /\ bbs[e[1]][e[2]].id = s.lo
                     /\ e[3] = s.rhs_bb

\* an && whose right operand, an ||, opened blocks of its own and emitted
\* instructions
C7_Witness ==
    \E k \in 1..Len(shortLog), m \in 1..Len(shortLog) :
        /\ shortLog[k].op = "And" /\ shortLog[m].op = "Or"
        /\ shortLog[m].rhs_bb \in Region(shortLog[k])
        /\ shortLog[k].bbHi > shortLog[k].rhs_bb
        /\ \E bb \in Region(shortLog[k]) : RhsInsts(shortLog[k], bb) # {}

\* C9: whenever lowering of a block statement or of a function definition
\* returns, with Ok or with an error, the scope stack is what it was before
\* that statement or definition was entered.
C9_ScopePaired ==
    (ev.ret /\ ev.node \in {"StmtBlock", "FuncDef"}) => scope = ev.f.s0

\* C10: the depth of the loop stack is the number of while bodies enclosing
\* the node being lowered, and when a While returns the loop stack is what it
\* was on entry.
C10_LoopStackDepth ==
    /\ Len(loop_stack) = Cardinality(LexLoops(stack))
    /\ (ev.ret /\ ev.node = "While") => loop_stack = ev.f.l0

\* C11: when lowering of a statement that emits control flow returns Ok, the
\* current block is set and holds no terminator.
C11_CurrentBlockOpen ==
    (ev.ret /\ ev.ok
       /\ ev.node \in {"Return", "Break", "Continue", "If", "IfElse", "While",
                       "StmtBlock", "Block"}) =>
        cur # 0 /\ Terms(bbs, cur) = {}

\* C14: a global scalar definition whose initializer is not a compile-time
\* constant ends the compilation: the definition does not return, no global
\* is allocated for it and its name is not bound.
C14_NonConstantGlobalIsFatal ==
    (ev.f.k = "GlobalVarDef" /\ ~IsOk(ev.f.r)) =>
        /\ ~ev.ret
        /\ err = "exit"
        /\ get_identifier(scope, ev.f.name) # from_variable(ev.f.var_alloc)

\* the declarations: local scalar, local array, scalar constant, global scalar
DeclKinds == {"Decl", "ArrDecl", "ConstDecl", "GlobalVarDef"}

\* C15: a declaration whose name the top scope already binds returns the
\* error MultipleDefinition to its caller, whatever kind of declaration it
\* is; a declaration is rejected so only when the top scope binds the name,
\* and one that returns Ok has bound the name in the top scope.
C15_RedeclarationRejected ==
    ev.f.k \in DeclKinds =>
        /\ ev.f.hit => (ev.ret /\ ~ev.ok /\ err = "MultipleDefinition")
        /\ (ev.ret /\ err = "MultipleDefinition") =>
               (ev.f.hit /\ Collides(scope, ev.f.name))
        /\ (ev.ret /\ ev.ok) =>
               (Collides(scope, ev.f.name)
                  /\ LexDecl(stack, ev.f.name) = get_identifier(scope, ev.f.name))

\* the places <<block, position>> of the instructions with a handle above n
Since(n) ==
    UNION {{<<bb, i>> : i \in {j \in 1..Len(bbs[bb]) : bbs[bb][j].id > n}}
           : bb \in 1..Len(bbs)}

\* C16: when a Return returns: without expression it appended one void ret;
\* with an expression whose constant evaluation succeeds with v it appended
\* one ret of the literal v to the current block and nothing else; with an
\* expression whose constant evaluation fails, no evaluation failure is
\* reported: the expression was lowered and, if that succeeded, its value is
\* returned by a ret that ends the current block.
C16_ReturnFoldsOrLowers ==
    (ev.ret /\ ev.f.k = "Return") =>
        LET f == ev.f
            last == bbs[cur][Len(bbs[cur])]
            only == Since(f.n0) = {<<cur, Len(bbs[cur])>>} /\ last.op = "ret"
        IN  IF f.e = NoExpr THEN ev.ok /\ only /\ last.val = Void
            ELSE IF IsOk(EvalIn(f.e, scope))
            THEN ev.ok /\ only /\ last.val = Literal(EvalIn(f.e, scope).v)
            ELSE IF ev.ok
            THEN /\ last.op = "ret" /\ last.val.k = "value"
                 /\ last.val.v > f.n0 /\ last.val.v = last.id - 1
                 /\ \A p \in Since(f.n0) : bbs[p[1]][p[2]].id <= last.id
            ELSE err \in {"UnknownIdentifier", "InvalidExpr"}

\* a return of `x && x` or `x || x` with x a constant: folded although the
\* runtime path would have opened blocks
C16_Witness ==
    /\ ev.ret /\ ev.ok /\ ev.f.k = "Return"
    /\ ev.f.e.k = "Bin"
    /\ IsOk(EvalIn(ev.f.e, scope))

\* a Block that returns Ok has just added one empty block at the end of the
\* layout and made it the current block
C18_FreshBlock ==
    (ev.ret /\ ev.ok /\ ev.f.k = "Block") =>
        /\ cur = Len(bbs) /\ bbs[cur] = <<>>
        /\ layout[Len(layout)] = cur
        /\ \A i \in 1..(Len(layout) - 1) : layout[i] # cur

\* once a return, break or continue that is directly an item of a Block has
\* returned Ok, the Block's next step is its last: it adds the fresh block and
\* returns Ok, and nothing else is appended, bound or reported
C18_StopStep ==
    (ev.ret /\ ev.ok /\ ev.f.k \in {"Return", "Break", "Continue"}
       /\ stack # <<>> /\ Top.k = "Block") =>
        /\ stack' = Pop(stack)
        /\ ev'.ret /\ ev'.ok /\ ev'.f.k = "Block"
        /\ bbs' = Append(bbs, <<>>)
        /\ layout' = Append(layout, Len(bbs) + 1)
        /\ scope' = scope /\ err' = err /\ nval' = nval
        /\ loop_stack' = loop_stack

\* C18: a Block stops at the first item that is directly a return, break or
\* continue, no later item contributing anything, and in every case that
\* returns Ok it finishes by adding one fresh empty block as current block.
C18_BlockStopsEarly == [](C18_FreshBlock) /\ [][C18_StopStep]_vars

\* a Block in a loop body has returned after stopping at a break or continue
C18_Witness ==
    /\ ev.ret /\ ev.ok /\ ev.f.k = "Block" /\ ev.f.pc = 2
    /\ LexLoops(stack) # {}
    /\ \E bb \in 1..Len(bbs) :
          bbs[bb] # <<>> /\ bbs[bb][Len(bbs[bb])].op = "jump"

\* this step appends to block bb one instruction op with operands a and b,
\* and nothing else
Appended(bb, op, a, b) ==
    /\ Len(bbs'[bb]) = Len(bbs[bb]) + 1
    /\ SubSeq(bbs'[bb], 1, Len(bbs[bb])) = bbs[bb]
    /\ LET i == bbs'[bb][Len(bbs'[bb])]
       IN  i.op = op /\ i.a = a /\ i.b = b

\* this step appends a jump to target to block bb exactly when bb holds no
\* terminator, and leaves bb alone when it holds one
JumpIffOpen(bb, target) ==
    IF Terms(bbs, bb) = {} THEN Appended(bb, "jump", target, 0)
    ELSE bbs'[bb] = bbs[bb]

\* this step leaves the blocks that exist alone, but for those of the set S
OthersKept(S) == \A bb \in (1..Len(bbs)) \ S : bbs'[bb] = bbs[bb]

C19_IfStep ==
    /\ (At("If", 1) \/ At("IfElse", 1)) =>
          \* c has been lowered: the then arm starts in a new block
          /\ stack'[Len(stack)].current_bb = cur
          /\ cur' = Len(bbs) + 1 /\ stack'[Len(stack)].then_bb = cur'
          /\ OthersKept({})
    /\ At("If", 2) =>
          \* the then arm has returned Ok with exit block cur
          LET end_bb == Len(bbs) + 1
          IN  /\ Len(bbs') = end_bb /\ bbs'[end_bb] = <<>>
              /\ Appended(Top.current_bb, "br", Top.then_bb, end_bb)
              /\ JumpIffOpen(cur, end_bb)
              /\ OthersKept({Top.current_bb, cur})
              /\ cur' = end_bb /\ layout' = Append(layout, end_bb)
              /\ stack' = Pop(stack) /\ ev'.ret /\ ev'.ok
    /\ At("IfElse", 2) =>
          \* the then arm has returned Ok: the else arm starts in a new block
          /\ stack'[Len(stack)].then_bb_end = cur
          /\ cur' > Len(bbs) /\ stack'[Len(stack)].else_bb = cur'
          /\ stack'[Len(stack)].end_bb > Len(bbs)
          /\ stack'[Len(stack)].end_bb # cur'
          /\ OthersKept({})
    /\ At("IfElse", 3) =>
          \* the else arm has returned Ok with exit block cur
          /\ bbs[Top.end_bb] = <<>> /\ bbs'[Top.end_bb] = <<>>
          /\ Appended(Top.current_bb, "br", Top.then_bb, Top.else_bb)
          /\ JumpIffOpen(Top.then_bb_end, Top.end_bb)
          /\ JumpIffOpen(cur, Top.end_bb)
          /\ OthersKept({Top.current_bb, Top.then_bb_end, cur})
          /\ cur' = Top.end_bb /\ layout' = Append(layout, Top.end_bb)
          /\ stack' = Pop(stack) /\ ev'.ret /\ ev'.ok

\* C19: lowering `if (c) T [else E]` appends one branch on c to the block
\* that is current after c was lowered, to (then, else) or (then, end); a jump
\* to the end block is appended to the exit block of each arm exactly when
\* that block has no terminator; the end block becomes the current block.
C19_IfShape == [][C19_IfStep]_vars

\* an if with else has returned whose then arm ended in a ret, so no jump was
\* added there, and whose else arm was ended by a jump to the end block
C19_Witness ==
    /\ ev.ret /\ ev.ok /\ ev.f.k = "IfElse"
    /\ LET t == bbs[ev.f.then_bb_end]
           e == bbs[ev.f.else_bb]
       IN  /\ t # <<>> /\ t[Len(t)].op = "ret"
           /\ e # <<>> /\ e[Len(e)].op = "jump" /\ e[Len(e)].a = ev.f.end_bb
    /\ bbs[ev.f.current_bb][Len(bbs[ev.f.current_bb])].op = "br"

C20_WhileStep ==
    /\ At("While", 0) =>
          \* c is lowered starting in a new, empty start block
          /\ cur' > Len(bbs) /\ bbs'[cur'] = <<>>
          /\ stack'[Len(stack)].start_bb = cur'
          /\ OthersKept({})
    /\ At("While", 1) =>
          \* c has been lowered: its block is ended by the branch
          /\ Terms(bbs, cur) = {}
          /\ Appended(cur, "br", Top.body_bb, Top.end_bb)
          /\ OthersKept({cur})
          /\ cur' = Top.body_bb /\ bbs[Top.body_bb] = <<>>
    /\ At("While", 2) =>
          \* B has returned Ok with exit block cur
          /\ IF Terms(bbs, cur) = {}
             THEN /\ Len(bbs') = Len(bbs)
                  /\ Appended(cur, "jump", Top.start_bb, 0)
                  /\ OthersKept({cur})
             ELSE /\ Len(bbs') = Len(bbs) + 1
                  /\ Len(bbs'[Len(bbs')]) = 1
                  /\ bbs'[Len(bbs')][1].op = "jump"
                  /\ bbs'[Len(bbs')][1].a = Top.start_bb
                  /\ OthersKept({})
          /\ cur' = Top.end_bb /\ bbs'[Top.end_bb] = <<>>
          /\ stack' = Pop(stack) /\ ev'.ret /\ ev'.ok

\* C20: lowering `while (c) B` lowers c starting in a new start block and ends
\* the block current after c with a branch on c to (body, end); after B one
\* jump to the start block is emitted, into B's exit block when it has no
\* terminator and otherwise into a fresh block; the end block becomes the
\* current block.
C20_WhileShape == [][C20_WhileStep]_vars

\* a while has returned whose body ended in a terminator, so that the back
\* edge went into a fresh block holding nothing else
C20_Witness ==
    /\ ev.ret /\ ev.ok /\ ev.f.k = "While"
    /\ cur = ev.f.end_bb
    /\ Len(bbs) \notin {ev.f.body_bb, ev.f.end_bb, ev.f.start_bb}
    /\ Len(bbs[Len(bbs)]) = 1
    /\ bbs[Len(bbs)][1].op = "jump" /\ bbs[Len(bbs)][1].a = ev.f.start_bb
    /\ \E bb \in 1..Len(bbs) :
          bbs[bb] # <<>> /\ bbs[bb][Len(bbs[bb])].op = "jump"
                        /\ bbs[bb][Len(bbs[bb])].a = ev.f.end_bb

C21_StoreStep ==
    (At("Decl", 1) \/ At("ArrDecl", 1)) =>
        \* the initializer has been lowered and cur is the block it left
        /\ Appended(cur, "store", 0, 0)
        /\ OthersKept({cur})

RECURSIVE OnlyLiterals(_)
OnlyLiterals(e) ==
    CASE e.k = "Num" -> TRUE
      [] e.k = "Unary" -> OnlyLiterals(e.e)
      [] e.k = "Bin" -> OnlyLiterals(e.l) /\ OnlyLiterals(e.r)
      [] OTHER -> FALSE

Undefined == [t |-> "Undefined"]

\* the value of a literal expression in exact integer arithmetic with C's
\* truncating division and short-circuit && and ||, defined when every
\* intermediate result lies in I32Min..I32Max and no divisor used is 0
RECURSIVE Exact(_)
Exact(e) ==
    CASE e.k = "Num" -> Ok(e.v)
      [] e.k = "Unary" ->
            LET x == Exact(e.e)
            IN  IF ~IsOk(x) THEN Undefined
                ELSE IF e.op = "Pos" THEN x
                ELSE IF e.op = "Not" THEN Ok(as_i32(x.v = 0))
                \* -x lies in the range unless x is I32Min
                ELSE IF x.v = I32Min THEN Undefined ELSE Ok(0 - x.v)
      [] e.k = "Bin" ->
            LET l == Exact(e.l)
                r == Exact(e.r)
            IN  IF ~IsOk(l) THEN Undefined
                ELSE IF e.op = "And" /\ l.v = 0 THEN Ok(0)
                ELSE IF e.op = "Or" /\ l.v # 0 THEN Ok(1)
                ELSE IF ~IsOk(r) THEN Undefined
                ELSE CASE e.op \in {"And", "Or"} -> Ok(as_i32(r.v # 0))
                       [] e.op \in {"Eq", "Ne", "Lt", "Gt", "Le", "Ge"} ->
                            EvalCompare(e.op, l, r)
                       [] e.op = "Add" ->
                            IF (r.v >= 0 /\ l.v <= I32Max - r.v)
                               \/ (r.v < 0 /\ l.v >= I32Min - r.v)
                            THEN Ok(l.v + r.v) ELSE Undefined
                       [] e.op = "Sub" ->
                            IF (r.v >= 0 /\ l.v >= I32Min + r.v)
                               \/ (r.v < 0 /\ l.v <= I32Max + r.v)
                            THEN Ok(l.v - r.v) ELSE Undefined
                       [] OTHER ->
                            \* * / %: in range exactly when the checked
                            \* operation has a value
                            LET v == EvalArith(e.op, l, r)
                            IN  IF IsOk(v) THEN v ELSE Undefined

\* C6: on an expression built only from literals and operators the
\* evaluator returns Ok(v) only for the exact value v, and returns a failure
\* whenever an intermediate result is not representable or a divisor is 0.
C6_ExactOrFailure ==
    OnlyLiterals(ex) =>
        IF IsOk(Exact(ex)) THEN res = Exact(ex) ELSE res.t = "Err"

\* C12: constant evaluation of `l && r` and `l || r` returns Ok only if both
\* operands evaluate successfully: when r fails, the whole expression fails,
\* whatever the value of l.
C12_BothOperandsConstant ==
    (ex.k = "Bin" /\ ex.op \in {"And", "Or"} /\ IsOk(res)) =>
        /\ IsOk(eval(ex.l, overflowChecks))
        /\ IsOk(eval(ex.r, overflowChecks))

\* C13: `l / r` and `l % r` with both operands evaluated fail with
\* DivisionByZero exactly when r is 0; a quotient that does not fit in i32 is
\* reported as Overflow.
C13_DivisionByZeroOnlyForZero ==
    (ex.k = "Bin" /\ ex.op \in {"Div", "Mod"}) =>
        LET l == eval(ex.l, overflowChecks)
            r == eval(ex.r, overflowChecks)
        IN  (IsOk(l) /\ IsOk(r)) =>
                /\ (res = Err("DivisionByZero")) <=> (r.v = 0)
                /\ (r.v # 0 /\ ~IsOk(res)) => res = Err("Overflow")

(***************************************************************************)
(* SpecArr: the address of an indexed array element (get_array_pos) and    *)
(* what LVal and Assign do with it.  A type is the sequence of its         *)
(* constructors, outermost first; array lengths play no part in the        *)
(* addressing and are left out.                                            *)
(***************************************************************************)
\* the most dimensions of an array, and the largest index value
MaxDims == 3
MaxIndex == 1

I32 == <<"i32">>
Pointer(ty) == <<"ptr">> \o ty
IsPointer(ty) == ty[1] = "ptr"

\* get_array_type for a shape of n dimensions
get_array_type(n) == [i \in 1..(n + 1) |-> IF i <= n THEN "arr" ELSE "i32"]

\* get_func_param, the FuncFParam::ArrayFParam arm, for a parameter of dims
\* dimensions: with a placeholder the shape holds the dimensions after `[]`,
\* without one the first dimension of the shape is dropped
get_func_param(dims, placeholder) ==
    LET shape == IF placeholder THEN dims - 1 ELSE dims
    IN  Pointer(get_array_type(IF placeholder THEN shape ELSE shape - 1))

\* util::remove_pointer
remove_pointer(ty) == IF IsPointer(ty) THEN Tail(ty) ELSE ty

\* get_type: the type of a value of the function or of the program
get_type(V, v) == V[v].ty

\* the values the instruction builders create
Value(op, ty, a, b) == [op |-> op, ty |-> ty, a |-> a, b |-> b]
integer(n) == Value("integer", I32, n, 0)
alloc(ty) == Value("alloc", Pointer(ty), 0, 0)
global_alloc(V, init) == Value("global_alloc", Pointer(get_type(V, init)), init, 0)
load(V, src) == Value("load", Tail(get_type(V, src)), src, 0)
store(val, dest) == Value("store", <<"unit">>, val, dest)
get_ptr(V, src, index) == Value("get_ptr", get_type(V, src), src, index)
get_elem_ptr(V, src, index) ==
    Value("get_elem_ptr", Pointer(Tail(Tail(get_type(V, src)))), src, index)

\* an address whose type itself is looked at, not what it points to
AddressIsPointer(V, result) == IsPointer(get_type(V, result))

\* get_array_pos: `if let TypeKind::Pointer(_) = result_type.kind()` for
\* result_type = remove_pointer(get_type(result))
PointeeIsPointer(V, result) == IsPointer(remove_pointer(get_type(V, result)))

\* The array has been declared: a parameter materialized by FuncDef (its
\* alloc and store are in the function's first block), a local array
\* allocated by VarDef or ConstDef, or a global one.  decl.def is the
\* koopa_def of its Identifier, decl.ident the Identifier's variant.
InitArr ==
    /\ \E kind \in {"param", "local", "global"}, dims \in 1..MaxDims,
          placeholder \in BOOLEAN, ident \in {"Variable", "ConstArray"} :
         /\ placeholder => kind = "param"
         /\ ident = "ConstArray" => kind # "param"
         /\ LET param == Value("param", get_func_param(dims, placeholder), 0, 0)
                zero == Value("zero_init", get_array_type(dims), 0, 0)
            IN  values =
                  CASE kind = "param" -> <<param, alloc(param.ty), store(1, 2)>>
                    [] kind = "local" -> <<alloc(get_array_type(dims))>>
                    [] kind = "global" -> <<zero, global_alloc(<<zero>>, 1)>>
         /\ decl = [kind |-> kind, dims |-> dims, placeholder |-> placeholder,
                    def |-> IF kind = "local" THEN 1 ELSE 2, ident |-> ident]
    /\ emitted = <<>>
    /\ indices = <<>>
    /\ pos = [pc |-> "indices", i |-> 1, result |-> 0, err |-> "none"]
    /\ ex = Num(0) /\ res = Ok(0) /\ depth = 0 /\ overflowChecks = FALSE
    /\ bbs = <<>> /\ layout = <<>> /\ cur = 0 /\ func = 0
    /\ loop_stack = <<>> /\ scope = <<>> /\ nval = 0 /\ stack = <<>>
    /\ err = "none" /\ ast = <<>> /\ ev = <<>> /\ shortLog = <<>>

\* get_array_pos: lower the next index expression, an integer literal
ArrLowerIndex ==
    /\ pos.pc = "indices" /\ Len(indices) < decl.dims
    /\ \E n \in 0..MaxIndex : values' = Append(values, integer(n))
    /\ indices' = Append(indices, Len(values) + 1)
    /\ UNCHANGED <<decl, emitted, pos, evalVars, overflowChecks, lowerVars>>

\* get_array_pos: the indices are lowered; resolve the array's identifier
ArrResolve ==
    /\ pos.pc = "indices" /\ Len(indices) > 0
    /\ pos' = [pos EXCEPT !.pc = "steps", !.result = decl.def]
    /\ UNCHANGED <<decl, values, emitted, indices, evalVars, overflowChecks,
                   lowerVars>>

\* get_array_pos, one index whose current address points to a pointer: load
\* it, then get_ptr
ArrStepPointer ==
    /\ pos.pc = "steps" /\ pos.i <= Len(indices)
    /\ PointeeIsPointer(values, pos.result)
    /\ LET ld == Len(values) + 1
           V1 == Append(values, load(values, pos.result))
           array_elem == ld + 1
       IN  /\ values' = Append(V1, get_ptr(V1, ld, indices[pos.i]))
           /\ emitted' = emitted \o <<ld, array_elem>>
           /\ pos' = [pos EXCEPT !.i = @ + 1, !.result = array_elem]
    /\ UNCHANGED <<decl, indices, evalVars, overflowChecks, lowerVars>>

\* get_array_pos, one index whose current address points to an array:
\* get_elem_ptr
ArrStepArray ==
    /\ pos.pc = "steps" /\ pos.i <= Len(indices)
    /\ ~PointeeIsPointer(values, pos.result)
    /\ LET array_elem == Len(values) + 1
       IN  /\ values' = Append(values,
                               get_elem_ptr(values, pos.result, indices[pos.i]))
           /\ emitted' = Append(emitted, array_elem)
           /\ pos' = [pos EXCEPT !.i = @ + 1, !.result = array_elem]
    /\ UNCHANGED <<decl, indices, evalVars, overflowChecks, lowerVars>>

\* LVal::ArrayElem read after get_array_pos returned: load an i32 element,
\* decay anything else to the address of its first element
ArrReadElem ==
    /\ pos.pc = "steps" /\ pos.i > Len(indices)
    /\ LET target_type == remove_pointer(get_type(values, pos.result))
           v == Len(values) + 1
       IN  IF target_type = I32
           THEN /\ values' = Append(values, load(values, pos.result))
                /\ emitted' = Append(emitted, v)
           ELSE LET V1 == Append(values, integer(0))
                IN  /\ values' = Append(V1, get_elem_ptr(V1, pos.result, v))
                    /\ emitted' = Append(emitted, v + 1)
    /\ pos' = [pos EXCEPT !.pc = "read"]
    /\ UNCHANGED <<decl, indices, evalVars, overflowChecks, lowerVars>>

\* Assign to LVal::ArrayElem after get_array_pos returned: lower the value,
\* an integer literal, and store it at the address
ArrAssignElem ==
    /\ pos.pc = "steps" /\ pos.i > Len(indices)
    /\ LET val == Len(values) + 1
           V1 == Append(values, integer(1))
       IN  /\ values' = Append(V1, store(val, pos.result))
           /\ emitted' = Append(emitted, val + 1)
    /\ pos' = [pos EXCEPT !.pc = "stored"]
    /\ UNCHANGED <<decl, indices, evalVars, overflowChecks, lowerVars>>

\* LVal::Var read of the array's name, without index: a Variable whose
\* storage holds an array decays to the address of its first element, any
\* other Variable is loaded; another Identifier is InvalidExpr
ArrReadWhole ==
    /\ pos.pc = "indices" /\ indices = <<>>
    /\ IF decl.ident = "Variable"
       THEN LET var_def == decl.def
                ty == remove_pointer(get_type(values, var_def))
                v == Len(values) + 1
            IN  /\ IF ty[1] = "arr"
                   THEN LET V1 == Append(values, integer(0))
                        IN  /\ values' = Append(V1, get_elem_ptr(V1, var_def, v))
                            /\ emitted' = Append(emitted, v + 1)
                   ELSE /\ values' = Append(values, load(values, var_def))
                        /\ emitted' = Append(emitted, v)
                /\ pos' = [pos EXCEPT !.pc = "whole"]
       ELSE /\ pos' = [pos EXCEPT !.pc = "whole", !.err = "InvalidExpr"]
            /\ UNCHANGED <<values, emitted>>
    /\ UNCHANGED <<decl, indices, evalVars, overflowChecks, lowerVars>>

NextArr ==
    \/ ArrLowerIndex \/ ArrResolve \/ ArrStepPointer \/ ArrStepArray
    \/ ArrReadElem \/ ArrAssignElem \/ ArrReadWhole

SpecArr == InitArr /\ [][NextArr]_vars

(***************************************************************************)
(* Properties of array addressing (SpecArr)                                *)
(***************************************************************************)
\* the instructions k index steps must have appended to the block
ExpectedSteps(kind, k) ==
    IF kind = "param" /\ k > 0
    THEN <<"load", "get_ptr">> \o [j \in 1..(k - 1) |-> "get_elem_ptr"]
    ELSE [j \in 1..k |-> "get_elem_ptr"]

\* C8: indexing a parameter array emits load then get_ptr on the loaded
\* value for the first index and one get_elem_ptr for every further index;
\* indexing a local or global array emits one get_elem_ptr per index and no
\* load.  Each instruction works on the address the step before produced and
\* on the index of its own step.
C8_IndexSteps ==
    pos.pc # "indices" =>
        LET k == pos.i - 1
            E == ExpectedSteps(decl.kind, k)
            addr(j) == IF j = 1 THEN decl.def ELSE emitted[j - 1]
            step(j) == IF decl.kind = "param" THEN j - 1 ELSE j
        IN  /\ Len(emitted) >= Len(E)
            /\ pos.pc = "steps" => Len(emitted) = Len(E)
            /\ \A j \in 1..Len(E) :
                 LET i == values[emitted[j]]
                 IN  /\ i.op = E[j]
                     /\ i.a = addr(j)
                     /\ i.op = "get_ptr" => i.b = indices[1]
                     /\ i.op = "get_elem_ptr" => i.b = indices[step(j)]

\* every index of a parameter array of two or more dimensions has been
\* applied and the element read
C8_Witness ==
    /\ pos.pc = "read" /\ decl.kind = "param"
    /\ Len(indices) >= 2 /\ Len(indices) = decl.dims

\* C17: reading the un-indexed name of a local or global array, variable or
\* constant, succeeds and appends one get_elem_ptr with index 0 on the
\* array's storage and no load; reading an array with fewer indices than
\* dimensions ends with a get_elem_ptr with index 0 on the address of the
\* last index step.
C17_WholeArrayDecays ==
    /\ (pos.pc = "whole" /\ decl.kind \in {"local", "global"}) =>
          /\ pos.err = "none"
          /\ Len(emitted) = 1
          /\ LET i == values[emitted[1]]
             IN  i.op = "get_elem_ptr" /\ i.a = decl.def /\ values[i.b] = integer(0)
    /\ (pos.pc = "read" /\ Len(indices) < decl.dims) =>
          LET n == Len(emitted)
              i == values[emitted[n]]
          IN  /\ i.op = "get_elem_ptr" /\ values[i.b] = integer(0)
              /\ i.a = emitted[n - 1]

\* the storage an address was computed from, through index steps and loads
RECURSIVE Base(_)
Base(v) ==
    IF values[v].op \in {"get_elem_ptr", "get_ptr", "load"}
    THEN Base(values[v].a)
    ELSE v

\* C22: once a constant array is declared, no store is emitted whose
\* destination is derived from its storage, and an assignment to one of its
\* elements fails.
C22_ConstArrayNeverStored ==
    decl.ident = "ConstArray" =>
        /\ \A j \in 1..Len(emitted) :
              LET i == values[emitted[j]]
              IN  i.op = "store" => Base(i.b) # decl.def
        /\ pos.pc = "stored" => pos.err # "none"

====
